---- MODULE Spec2Model ----
(***************************************************************************)
(* Model of apklab-gradio-app.py: the APKProcessor helpers and the two     *)
(* Gradio handlers process_apk and rebuild_and_sign_apk.  The filesystem   *)
(* is a function from paths to contents; external tools (java, apktool,    *)
(* quark, jadx, uber-apk-signer, the HTTP server) are the environment and  *)
(* their outcomes are chosen nondeterministically.  Text is a sequence of  *)
(* one-character strings, so that `in` and str.replace are computed.       *)
(***************************************************************************)
EXTENDS Integers, Sequences, FiniteSets, TLC

VARIABLES
    tools,      \* environment: which external dependencies are usable
    fs,         \* filesystem: path -> content
    uuidCtr,    \* number of uuid4() values drawn so far
    pc,         \* per run: position in its handler
    inp,        \* per run: the handler's arguments
    loc,        \* per run: the handler's local variables
    ret,        \* per run: what the handler returned or raised
    logs,       \* per run: the handler's `logs` list
    calls,      \* per run: commands run and filesystem operations done, in order
    proj,       \* patch study: the project tree mitm_patch is applied to
    applied,    \* patch study: result of each mitm_patch application, in order
    zdisk,      \* archive study: directory tree, absolute path -> node
    zarchive,   \* archive study: the members of the archive create_zip wrote
    zpc,        \* archive study: "start", "zipped", "extracted" ("off" elsewhere)
    optTokens,  \* option study: the token list handed to a handler
    optCmds     \* option study: command lines built, per presentation of the list

vars == <<tools, fs, uuidCtr, pc, inp, loc, ret, logs, calls, proj, applied,
          zdisk, zarchive, zpc, optTokens, optCmds>>

pipeVars == <<tools, fs, uuidCtr, pc, inp, loc, ret, logs, calls>>
patchVars == <<proj, applied>>
zipVars == <<zdisk, zarchive, zpc>>
optVars == <<optTokens, optCmds>>
studyVars == <<patchVars, zipVars, optVars>>

(***************************************************************************)
(* Bounds                                                                  *)
(***************************************************************************)
NumRuns == 2        \* handler invocations that may overlap (SpecConc)
MaxChunks == 2      \* chunks a download body is split into
MaxFrags == 3       \* fragments a manifest text is assembled from
MaxApply == 2       \* times mitm_patch is applied to one project
MaxDepth == 2       \* directory levels below the root of a packaged tree
MaxFiles == 2       \* files in a packaged tree
MaxTokens == 3      \* length of an option token list

Runs == 1..NumRuns

(***************************************************************************)
(* Text: sequences of one-character strings                                *)
(***************************************************************************)
AttrName ==
    <<"a","n","d","r","o","i","d",":","n","e","t","w","o","r","k","S","e","c","u","r",
      "i","t","y","C","o","n","f","i","g">>

OpenTag ==
    <<"<","a","p","p","l","i","c","a","t","i","o","n">>

\* ="@xml/network_security_config"
AttrValue ==
    <<"=","\"","@","x","m","l","/","n","e","t","w","o","r","k","_","s","e","c","u","r",
      "i","t","y","_","c","o","n","f","i","g","\"">>

\* a variant of the replacement text without the space after the tag name
PatchedTagNoSpace == OpenTag \o AttrName \o AttrValue

PatchedTag ==
    <<"<","a","p","p","l","i","c","a","t","i","o","n"," ","a","n","d","r","o","i","d",
      ":","n","e","t","w","o","r","k","S","e","c","u","r","i","t","y","C","o","n","f",
      "i","g","=","\"","@","x","m","l","/","n","e","t","w","o","r","k","_","s","e","c",
      "u","r","i","t","y","_","c","o","n","f","i","g","\"">>

\* `pat in s` on Python strings: pat occurs as a contiguous substring of s
Contains(s, pat) ==
    \E i \in 1..(Len(s) - Len(pat) + 1) : SubSeq(s, i, i + Len(pat) - 1) = pat

\* s.find(pat) + 1: the position of the first occurrence of pat in s, 0 if none
str_find(s, pat) ==
    LET hits == {i \in 1..(Len(s) - Len(pat) + 1) : SubSeq(s, i, i + Len(pat) - 1) = pat}
    IN  IF hits = {} THEN 0 ELSE CHOOSE i \in hits : \A j \in hits : i <= j

\* s.replace(old, new): every non-overlapping occurrence, scanning left to right
RECURSIVE str_replace(_, _, _)
str_replace(s, old, new) ==
    LET i == str_find(s, old) IN
    IF i = 0 THEN s
    ELSE SubSeq(s, 1, i - 1) \o new
         \o str_replace(SubSeq(s, i + Len(old), Len(s)), old, new)

\* s.count(pat): the number of non-overlapping occurrences, scanning left to right
RECURSIVE str_count(_, _)
str_count(s, pat) ==
    LET i == str_find(s, pat) IN
    IF i = 0 THEN 0
    ELSE 1 + str_count(SubSeq(s, i + Len(pat), Len(s)), pat)

(***************************************************************************)
(* Project trees: relative path -> file text                               *)
(***************************************************************************)
EmptyTree == [x \in {} |-> <<>>]

ManifestFile == "AndroidManifest.xml"
NetSecFile == "res/xml/network_security_config.xml"

\* the text written to network_security_config.xml, one element per line
config_content ==
    << "<?xml version=\"1.0\" encoding=\"utf-8\"?>",
       "<network-security-config>",
       "    <base-config cleartextTrafficPermitted=\"true\">",
       "        <trust-anchors>",
       "            <certificates src=\"system\" />",
       "            <certificates src=\"user\" />",
       "        </trust-anchors>",
       "    </base-config>",
       "</network-security-config>" >>

\* tree with file `name` created or overwritten with `text`
WriteFile(tree, name, text) ==
    [x \in DOMAIN tree \cup {name} |-> IF x = name THEN text ELSE tree[x]]

\* a variant of the manifest edit that always inserts the attribute
PatchManifestUnguarded(content) ==
    str_replace(content, OpenTag, PatchedTag)

\* the manifest edit of mitm_patch: insert the attribute unless its name occurs
PatchManifest(content) ==
    IF ~Contains(content, AttrName)
    THEN str_replace(content, OpenTag, PatchedTag)
    ELSE content

\* a variant of mitm_patch that reports success without looking for the manifest
mitm_patch_always_ok(tree) ==
    [ ok |-> TRUE,
      out |-> "MITM patch applied to AndroidManifest.xml and network_security_config.xml created.",
      err |-> "",
      tree |-> WriteFile(tree, NetSecFile, config_content) ]

\* mitm_patch(project_dir) on the project's tree: (success, out, err) and the tree
mitm_patch(tree) ==
    LET withConfig == WriteFile(tree, NetSecFile, config_content) IN
    IF ManifestFile \in DOMAIN withConfig
    THEN [ ok |-> TRUE,
           out |-> "MITM patch applied to AndroidManifest.xml and network_security_config.xml created.",
           err |-> "",
           tree |-> WriteFile(withConfig, ManifestFile,
                              PatchManifest(withConfig[ManifestFile])) ]
    ELSE [ ok |-> FALSE, out |-> "AndroidManifest.xml not found.", err |-> "",
           tree |-> withConfig ]

(***************************************************************************)
(* Manifest texts the patch study starts from                              *)
(***************************************************************************)
FragManifestOpen ==
    <<"<","m","a","n","i","f","e","s","t",">">>

FragTagEnd ==
    <<">">>

FragAttr ==
    <<" ","a","n","d","r","o","i","d",":","n","e","t","w","o","r","k","S","e","c","u",
      "r","i","t","y","C","o","n","f","i","g","=","\"","@","x","m","l","/","o","w","n",
      "\"">>

FragComment ==
    <<"<","!","-","-","x","-","-",">">>

Fragments == {FragManifestOpen, OpenTag, FragAttr, FragTagEnd, FragComment}

RECURSIVE Texts(_)
Texts(n) ==
    IF n = 0 THEN {<<>>}
    ELSE Texts(n - 1) \cup {t \o f : t \in Texts(n - 1), f \in Fragments}

Manifests == Texts(MaxFrags)

(***************************************************************************)
(* Patch study: mitm_patch applied repeatedly to one project               *)
(***************************************************************************)
NoManifest == <<"?">>   \* stands for "no manifest file" in `applied`

ManifestOf(tree) ==
    IF ManifestFile \in DOMAIN tree THEN tree[ManifestFile] ELSE NoManifest

ApplyPatch ==
    /\ Len(applied) < MaxApply
    /\ LET res == mitm_patch(proj) IN
         /\ proj' = res.tree
         /\ applied' = Append(applied, [ ok |-> res.ok,
                                         before |-> ManifestOf(proj),
                                         manifest |-> ManifestOf(res.tree) ])
    /\ UNCHANGED pipeVars
    /\ UNCHANGED <<zipVars, optVars>>

(***************************************************************************)
(* Paths and file names                                                    *)
(***************************************************************************)
Name(stem, ext) == [stem |-> stem, ext |-> ext]
NoName == Name("", "")

MkPath(dir, name) == [dir |-> dir, name |-> name]
NoPath == MkPath("", NoName)        \* None / not yet assigned

\* str(path)
PathStr(p) ==
    p.dir \o "/" \o p.name.stem \o (IF p.name.ext = "" THEN "" ELSE "." \o p.name.ext)

TEMP_DIR == "temp"
DOWNLOADS_DIR == "downloads"
APKTOOL_PATH == "tools/apktool.jar"
SIGNER_PATH == "tools/uber-apk-signer.jar"
JADX_PATH == "tools/jadx/bin/jadx"

\* uuid.uuid4().hex[:8]: the n-th value drawn; values drawn are pairwise distinct
uuid4_hex8(n) == ToString(n)

(***************************************************************************)
(* Filesystem under BASE_DIR                                               *)
(***************************************************************************)
DirOf(tree) == [kind |-> "dir", tree |-> tree]
ZipOf(tree) == [kind |-> "zip", tree |-> tree]
FileOf(text) == [kind |-> "file", tree |-> [x \in {""} |-> text]]

Exists(f, p) == p \in DOMAIN f

Put(f, p, c) == [x \in DOMAIN f \cup {p} |-> IF x = p THEN c ELSE f[x]]

\* a variant of rmtree that removes nothing
rmtree_nothing(f, p) == f

\* shutil.rmtree(p)
rmtree(f, p) == [x \in DOMAIN f \ {p} |-> f[x]]

\* create_zip(source_dir, zip_path): every file under source_dir, by relative path
create_zip(f, source_dir, zip_path) ==
    Put(f, zip_path, ZipOf(f[source_dir].tree))

(***************************************************************************)
(* Tool check                                                              *)
(***************************************************************************)
\* how `java --version` can end: exit status zero, a non-zero exit status, or
\* Popen raising because the program cannot be started
JavaOutcomes == {"exit 0", "exit 1", "not launched"}

\* _run_command(command), by the way the process ended: (success, stdout, stderr)
run_command(outcome) ==
    CASE outcome = "exit 0" -> [success |-> TRUE, stdout |-> "stdout", stderr |-> "stderr"]
      [] outcome = "exit 1" -> [success |-> FALSE, stdout |-> "stdout", stderr |-> "stderr"]
      [] outcome = "not launched" -> [success |-> FALSE, stdout |-> "", stderr |-> "str(e)"]

\* java can be run
JavaRuns(t) == run_command(t.java).success

AllTools == [java |-> "exit 0", apktool |-> TRUE, signer |-> TRUE, jadx |-> TRUE]

\* a variant of check_tools that does not look at the JADX launcher
check_tools_no_jadx(t) ==
    IF ~run_command(t.java).success THEN [ok |-> FALSE, msg |-> "Java (JDK) not found."]
    ELSE IF ~t.apktool THEN [ok |-> FALSE, msg |-> "apktool.jar not found at " \o APKTOOL_PATH]
    ELSE IF ~t.signer THEN [ok |-> FALSE, msg |-> "uber-apk-signer.jar not found at " \o SIGNER_PATH]
    ELSE [ok |-> TRUE, msg |-> "found"]

\* check_tools(): t.java is how `java --version` ended, the others are the
\* existence of the file at its fixed path
check_tools(t) ==
    IF ~run_command(t.java).success THEN [ok |-> FALSE, msg |-> "Java (JDK) not found."]
    ELSE IF ~t.apktool THEN [ok |-> FALSE, msg |-> "apktool.jar not found at " \o APKTOOL_PATH]
    ELSE IF ~t.signer THEN [ok |-> FALSE, msg |-> "uber-apk-signer.jar not found at " \o SIGNER_PATH]
    ELSE IF ~t.jadx THEN [ok |-> FALSE, msg |-> "JADX not found at " \o JADX_PATH]
    ELSE [ok |-> TRUE, msg |-> "found"]

(***************************************************************************)
(* Download                                                                *)
(***************************************************************************)
chunk_size == 8192
NoHeader == -1          \* the response has no content-length header

\* a URL, as far as download_apk looks at it: its last "/"-separated segment
Url(last) == [host |-> "example.com", last |-> last]
NoUrl == [host |-> "", last |-> NoName]     \* None or ""

\* server responses: a transport error, or a body of n chunks with or without
\* a content-length header
Responses ==
    {[error |-> e, content_length |-> NoHeader, chunks |-> 0] :
        e \in {"ConnectionError", "HTTPError"}}
    \cup UNION {{[error |-> "", content_length |-> c, chunks |-> n] :
                    c \in {NoHeader, n * chunk_size}} : n \in 0..MaxChunks}

\* the chunk loop of download_apk: bytes written, and the exception that ended it
RECURSIVE iter_content(_, _, _)
iter_content(chunks, total_size, bytes_downloaded) ==
    IF chunks = 0 THEN [exc |-> "", bytes |-> bytes_downloaded]
    ELSE LET b == bytes_downloaded + chunk_size IN
         IF total_size = 0
         THEN [exc |-> "ZeroDivisionError", bytes |-> b]   \* b / total_size
         ELSE iter_content(chunks - 1, total_size, b)

\* a variant of download_apk without response.raise_for_status(): an HTTP error
\* status is not noticed and the error page is saved as the APK
download_apk_unchecked_status(url, resp) ==
    LET apk_name == IF url.last.ext = "apk" THEN url.last ELSE Name("downloaded", "apk")
        apk_path == MkPath(TEMP_DIR, apk_name)
    IN  IF resp.error = "ConnectionError"
        THEN [exc |-> "gr.Error", path |-> NoPath, opened |-> NoPath, bytes |-> 0]
        ELSE [exc |-> "", path |-> apk_path, opened |-> apk_path, bytes |-> 0]

\* download_apk(url, progress) against response resp
download_apk(url, resp) ==
    LET apk_name == IF url.last.ext = "apk" THEN url.last ELSE Name("downloaded", "apk")
        apk_path == MkPath(TEMP_DIR, apk_name)
        total_size == IF resp.content_length = NoHeader THEN 0 ELSE resp.content_length
        loop == iter_content(resp.chunks, total_size, 0)
    IN  IF resp.error # ""
        THEN [exc |-> "gr.Error", path |-> NoPath, opened |-> NoPath, bytes |-> 0]
        ELSE [exc |-> loop.exc,
              path |-> IF loop.exc = "" THEN apk_path ELSE NoPath,
              opened |-> apk_path,
              bytes |-> loop.bytes]

(***************************************************************************)
(* Option tokens                                                           *)
(***************************************************************************)
\* `token in options` on a Python list
In(token, options) == \E i \in DOMAIN options : options[i] = token

Flag(token, options, flag) == IF In(token, options) THEN <<flag>> ELSE <<>>

\* the decoder flag of one token
DecodeFlag(token) ==
    CASE token = "no_src" -> <<"-s">>
      [] token = "no_res" -> <<"-r">>
      [] token = "force_manifest" -> <<"--force-manifest">>
      [] token = "no_assets" -> <<"--no-assets">>
      [] token = "only_main_classes" -> <<"--only-main-classes">>
      [] token = "no_debug_info" -> <<"-b">>
      [] OTHER -> <<>>

\* a variant of the decoder options that follows the token list: one flag per
\* token, in the order listed
RECURSIVE apktool_opts_as_listed(_)
apktool_opts_as_listed(decode_options) ==
    IF decode_options = <<>> THEN <<>>
    ELSE DecodeFlag(Head(decode_options)) \o apktool_opts_as_listed(Tail(decode_options))

apktool_opts(decode_options) ==
    Flag("no_src", decode_options, "-s")
    \o Flag("no_res", decode_options, "-r")
    \o Flag("force_manifest", decode_options, "--force-manifest")
    \o Flag("no_assets", decode_options, "--no-assets")
    \o Flag("only_main_classes", decode_options, "--only-main-classes")
    \o Flag("no_debug_info", decode_options, "-b")

jadx_opts(decode_options) ==
    Flag("deobf", decode_options, "--deobf")
    \o Flag("show_bad_code", decode_options, "--show-bad-code")

build_opts(build_options) ==
    Flag("no_crunch", build_options, "--no-crunch")
    \o Flag("use_aapt2", build_options, "--use-aapt2")

(***************************************************************************)
(* Command lines                                                           *)
(***************************************************************************)
apktool_decode_cmd(apk_path, output_dir, options) ==
    <<"java", "-jar", APKTOOL_PATH, "d", PathStr(apk_path), "-o", PathStr(output_dir), "-f">>
    \o options

jadx_decompile_cmd(apk_path, output_dir, options) ==
    <<JADX_PATH, "-r", "-q", "-ds", PathStr(output_dir) \o "/java_sources">>
    \o options \o <<PathStr(apk_path)>>

quark_analyze_cmd(apk_path, output_dir) ==
    <<"quark", "analyze", "-a", PathStr(apk_path), "-o", PathStr(output_dir) \o "/quark-report.json">>

apktool_build_cmd(project_dir, output_apk, options) ==
    <<"java", "-jar", APKTOOL_PATH, "b", PathStr(project_dir), "-o", PathStr(output_apk)>>
    \o options

sign_apk_cmd(apk_path, keystore_path, ks_pass, ks_alias, key_pass) ==
    <<"java", "-jar", SIGNER_PATH, "--apks", PathStr(apk_path), "--ks", PathStr(keystore_path),
      "--ksPass", ks_pass, "--ksAlias", ks_alias, "--keyPass", key_pass>>


(***************************************************************************)
(* Handler state                                                           *)
(***************************************************************************)
NoInput ==
    [ handler |-> "", apk_file |-> NoPath, apk_url |-> NoUrl, decode_options |-> <<>>,
      project_zip |-> NoPath, build_options |-> <<>>, keystore_file |-> NoPath,
      ks_pass |-> "", alias |-> "", key_pass |-> "" ]

NoLocals ==
    [ apk_path |-> NoPath,          \* process_apk: apk_path
      opened |-> NoPath,            \* the file download_apk opened for writing
      requested |-> FALSE,          \* download_apk sent its GET
      resp |-> [error |-> "", content_length |-> NoHeader, chunks |-> 0],
      project_name |-> "",
      project_dir |-> NoPath,
      output_dir |-> NoPath,        \* rebuild_and_sign_apk: output_dir
      zip_path |-> NoPath,          \* process_apk: zip_path, once written
      final_apk_path |-> NoPath ]   \* rebuild_and_sign_apk: final_apk_path, once written

NoReturn == [status |-> "", artifact |-> NoPath, raised |-> ""]

\* return status, gr.DownloadButton(value=artifact), "\n".join(logs)
Returned(status, artifact) == [status |-> status, artifact |-> artifact, raised |-> ""]

\* the handler ends with an exception instead of returning
Raised(exc) == [status |-> "", artifact |-> NoPath, raised |-> exc]

Ended(r) == pc[r] = "done"
Active(r) == pc[r] \notin {"idle", "done"}

(***************************************************************************)
(* Inputs                                                                  *)
(***************************************************************************)
Stems == {"sample", "other"}

\* an uploaded file: Gradio stores it under its own name in an upload directory
Upload(stem, ext) == MkPath("gradio", Name(stem, ext))

ApkFiles == {NoPath} \cup {Upload(s, "apk") : s \in Stems}
ApkUrls == {NoUrl, Url(Name("sample", "apk")), Url(Name("latest", ""))}

StageTokens == <<"mitm_patch", "quark_analysis", "decompile_java">>

\* the tokens of `order` that are in the set `chosen`, in that order
Pick(order, chosen) == SelectSeq(order, LAMBDA t : t \in chosen)

Range(seq) == {seq[i] : i \in DOMAIN seq}

DecodeOptionLists ==
    {Pick(StageTokens \o <<"no_src">>, c) : c \in SUBSET (Range(StageTokens) \cup {"no_src"})}

(***************************************************************************)
(* What apktool, quark and jadx leave in the project directory             *)
(***************************************************************************)
PlainManifest == FragManifestOpen \o OpenTag \o FragTagEnd
OwnConfigManifest == FragManifestOpen \o OpenTag \o FragAttr \o FragTagEnd

BaseTree == [x \in {"apktool.yml"} |-> <<"version">>]

DecodedTrees ==
    {BaseTree} \cup {WriteFile(BaseTree, ManifestFile, m) : m \in {PlainManifest, OwnConfigManifest}}

(***************************************************************************)
(* Calls: what a handler has run so far                                    *)
(***************************************************************************)
\* one command run through _run_command, or one in-process operation, with
\* the `success` it reported
Call(op, cmd, ok) == [op |-> op, cmd |-> cmd, ok |-> ok]

Ops(r) == {calls[r][i].op : i \in DOMAIN calls[r]}
Failed(r, op) == \E i \in DOMAIN calls[r] : calls[r][i].op = op /\ ~calls[r][i].ok
Succeeded(r, op) == \E i \in DOMAIN calls[r] : calls[r][i].op = op /\ calls[r][i].ok

\* a variant in which every `if not success:` returns
OnFailureAlwaysAbort(stage) == "abort"

\* a variant in which no `if not success:` returns
OnFailureNeverAbort(stage) == "log"

\* what the `if not success:` after each external tool does: return, or only log
OnFailure(stage) ==
    CASE stage = "apktool_decode" -> "abort"
      [] stage = "quark_analyze" -> "log"
      [] stage = "jadx_decompile" -> "log"
      [] stage = "apktool_build" -> "abort"
      [] stage = "sign_apk" -> "abort"

(***************************************************************************)
(* process_apk                                                             *)
(***************************************************************************)
StartProcess(r, files, urls, options) ==
    /\ pc[r] = "idle"
    /\ \E f \in files, u \in urls, o \in options :
         inp' = [inp EXCEPT ![r] = [NoInput EXCEPT !.handler = "process_apk",
                                       !.apk_file = f, !.apk_url = u,
                                       !.decode_options = o]]
    /\ pc' = [pc EXCEPT ![r] = "check_tools"]
    /\ UNCHANGED <<tools, fs, uuidCtr, loc, ret, logs, calls>>
    /\ UNCHANGED studyVars

\* 1. Check tools
P_CheckTools(r) ==
    /\ pc[r] = "check_tools"
    /\ LET res == check_tools(tools) IN
         /\ calls' = [calls EXCEPT ![r] = Append(@, Call("check_tools", <<"java", "--version">>, res.ok))]
         /\ logs' = [logs EXCEPT ![r] = Append(@, "--- Tool Check ---\n" \o res.msg)]
         /\ IF ~res.ok
            THEN /\ ret' = [ret EXCEPT ![r] =
                              Returned("Error: Tools are not configured correctly.", NoPath)]
                 /\ pc' = [pc EXCEPT ![r] = "done"]
            ELSE /\ pc' = [pc EXCEPT ![r] = "input"]
                 /\ UNCHANGED ret
    /\ UNCHANGED <<tools, fs, uuidCtr, inp, loc>>
    /\ UNCHANGED studyVars

\* a variant of the input check that lets every call through
NoInputGivenNever(apk_file, apk_url) == FALSE

\* `apk_file is None and not apk_url`
NoInputGiven(apk_file, apk_url) == apk_file = NoPath /\ apk_url = NoUrl

\* a variant of the choice of input in which a URL takes precedence
UseUploadUnlessUrl(apk_file, apk_url) == apk_file # NoPath /\ apk_url = NoUrl

\* `apk_file is not None`: the upload is the input, whatever the URL
UseUpload(apk_file, apk_url) == apk_file # NoPath

\* 2. Determine APK path
P_Input(r) ==
    /\ pc[r] = "input"
    /\ IF NoInputGiven(inp[r].apk_file, inp[r].apk_url)
       THEN /\ ret' = [ret EXCEPT ![r] = Raised("gr.Error: Please upload an APK file or provide a URL.")]
            /\ pc' = [pc EXCEPT ![r] = "done"]
            /\ UNCHANGED <<fs, loc, logs, calls>>
       ELSE IF UseUpload(inp[r].apk_file, inp[r].apk_url)
       THEN /\ loc' = [loc EXCEPT ![r].apk_path = inp[r].apk_file]
            /\ logs' = [logs EXCEPT ![r] = Append(@, "Processing uploaded file")]
            /\ pc' = [pc EXCEPT ![r] = "setup"]
            /\ UNCHANGED <<fs, ret, calls>>
       ELSE \E resp \in Responses :
              LET d == download_apk(inp[r].apk_url, resp) IN
                /\ calls' = [calls EXCEPT ![r] =
                               Append(@, Call("download_apk", <<"GET">>, d.exc = ""))]
                /\ fs' = IF d.opened # NoPath
                         THEN Put(fs, d.opened, FileOf(<<ToString(d.bytes)>>))
                         ELSE fs
                /\ loc' = [loc EXCEPT ![r].apk_path = d.path, ![r].opened = d.opened,
                                      ![r].requested = TRUE, ![r].resp = resp]
                /\ IF d.exc = ""
                   THEN /\ logs' = [logs EXCEPT ![r] =
                                      @ \o <<"Downloading APK from URL", "APK downloaded">>]
                        /\ pc' = [pc EXCEPT ![r] = "setup"]
                        /\ UNCHANGED ret
                   ELSE \* except Exception as e
                        /\ logs' = [logs EXCEPT ![r] = Append(@, "Downloading APK from URL")]
                        /\ ret' = [ret EXCEPT ![r] =
                                     Returned("Error downloading APK: " \o d.exc, NoPath)]
                        /\ pc' = [pc EXCEPT ![r] = "done"]
    /\ UNCHANGED <<tools, uuidCtr, inp>>
    /\ UNCHANGED studyVars

\* 3. Setup project directory
P_Setup(r) ==
    /\ pc[r] = "setup"
    /\ LET project_name == loc[r].apk_path.name.stem
           project_dir == MkPath(TEMP_DIR,
                              Name(project_name \o "-decompiled-" \o uuid4_hex8(uuidCtr + 1), ""))
       IN /\ uuidCtr' = uuidCtr + 1
          /\ fs' = Put(IF Exists(fs, project_dir) THEN rmtree(fs, project_dir) ELSE fs,
                       project_dir, DirOf(EmptyTree))
          /\ loc' = [loc EXCEPT ![r].project_name = project_name,
                                ![r].project_dir = project_dir]
          /\ calls' = [calls EXCEPT ![r] =
                         Append(@, Call("os.makedirs", <<PathStr(project_dir)>>, TRUE))]
          /\ logs' = [logs EXCEPT ![r] = Append(@, "Created project directory")]
    /\ pc' = [pc EXCEPT ![r] = "decode"]
    /\ UNCHANGED <<tools, inp, ret>>
    /\ UNCHANGED studyVars

\* 4. Parse options, 5. Decode with Apktool
P_Decode(r) ==
    /\ pc[r] = "decode"
    /\ \E success \in BOOLEAN, tree \in DecodedTrees :
         /\ calls' = [calls EXCEPT ![r] =
                        Append(@, Call("apktool_decode",
                                       apktool_decode_cmd(loc[r].apk_path, loc[r].project_dir,
                                                          apktool_opts(inp[r].decode_options)),
                                       success))]
         /\ fs' = IF success THEN Put(fs, loc[r].project_dir, DirOf(tree)) ELSE fs
         /\ logs' = [logs EXCEPT ![r] =
                       @ \o <<"--- Apktool Decompilation ---", "Apktool STDOUT", "Apktool STDERR">>]
         /\ IF ~success /\ OnFailure("apktool_decode") = "abort"
            THEN /\ ret' = [ret EXCEPT ![r] = Returned("Apktool failed.", NoPath)]
                 /\ pc' = [pc EXCEPT ![r] = "done"]
            ELSE /\ pc' = [pc EXCEPT ![r] = "patch"]
                 /\ UNCHANGED ret
    /\ UNCHANGED <<tools, uuidCtr, inp, loc>>
    /\ UNCHANGED studyVars

\* a variant of step 6 that patches whether or not the token is selected
P_PatchUnconditional(r) ==
    /\ pc[r] = "patch"
    /\ LET res == mitm_patch(fs[loc[r].project_dir].tree) IN
         /\ fs' = Put(fs, loc[r].project_dir, DirOf(res.tree))
         /\ calls' = [calls EXCEPT ![r] =
                        Append(@, Call("mitm_patch", <<PathStr(loc[r].project_dir)>>, res.ok))]
         /\ logs' = [logs EXCEPT ![r] = @ \o <<"--- MITM Patch ---", res.out, res.err>>]
    /\ pc' = [pc EXCEPT ![r] = "quark"]
    /\ UNCHANGED <<tools, uuidCtr, inp, loc, ret>>
    /\ UNCHANGED studyVars

\* 6. Optional: MITM Patch
P_Patch(r) ==
    /\ pc[r] = "patch"
    /\ IF In("mitm_patch", inp[r].decode_options)
       THEN LET res == mitm_patch(fs[loc[r].project_dir].tree) IN
              /\ fs' = Put(fs, loc[r].project_dir, DirOf(res.tree))
              /\ calls' = [calls EXCEPT ![r] =
                             Append(@, Call("mitm_patch", <<PathStr(loc[r].project_dir)>>, res.ok))]
              /\ logs' = [logs EXCEPT ![r] = @ \o <<"--- MITM Patch ---", res.out, res.err>>]
       ELSE UNCHANGED <<fs, calls, logs>>
    /\ pc' = [pc EXCEPT ![r] = "quark"]
    /\ UNCHANGED <<tools, uuidCtr, inp, loc, ret>>
    /\ UNCHANGED studyVars

\* 7. Optional: Quark Analysis
P_Quark(r) ==
    /\ pc[r] = "quark"
    /\ IF In("quark_analysis", inp[r].decode_options)
       THEN \E success \in BOOLEAN :
              /\ calls' = [calls EXCEPT ![r] =
                             Append(@, Call("quark_analyze",
                                            quark_analyze_cmd(loc[r].apk_path, loc[r].project_dir),
                                            success))]
              /\ fs' = IF success
                       THEN Put(fs, loc[r].project_dir,
                                DirOf(WriteFile(fs[loc[r].project_dir].tree,
                                                "quark-report.json", <<"{}">>)))
                       ELSE fs
              /\ IF ~success /\ OnFailure("quark_analyze") = "abort"
                 THEN /\ logs' = [logs EXCEPT ![r] =
                                    @ \o <<"--- Quark Engine Analysis ---", "Quark STDOUT", "Quark STDERR">>]
                      /\ ret' = [ret EXCEPT ![r] = Returned("Quark analysis failed.", NoPath)]
                      /\ pc' = [pc EXCEPT ![r] = "done"]
                 ELSE /\ logs' = [logs EXCEPT ![r] =
                                    @ \o <<"--- Quark Engine Analysis ---", "Quark STDOUT", "Quark STDERR">>
                                      \o (IF success THEN <<>> ELSE <<"Quark analysis failed.">>)]
                      /\ pc' = [pc EXCEPT ![r] = "jadx"]
                      /\ UNCHANGED ret
       ELSE /\ pc' = [pc EXCEPT ![r] = "jadx"]
            /\ UNCHANGED <<fs, calls, logs, ret>>
    /\ UNCHANGED <<tools, uuidCtr, inp, loc>>
    /\ UNCHANGED studyVars

\* 8. Optional: JADX Decompilation
P_Jadx(r) ==
    /\ pc[r] = "jadx"
    /\ IF In("decompile_java", inp[r].decode_options)
       THEN \E success \in BOOLEAN :
              /\ calls' = [calls EXCEPT ![r] =
                             Append(@, Call("jadx_decompile",
                                            jadx_decompile_cmd(loc[r].apk_path, loc[r].project_dir,
                                                               jadx_opts(inp[r].decode_options)),
                                            success))]
              /\ fs' = IF success
                       THEN Put(fs, loc[r].project_dir,
                                DirOf(WriteFile(fs[loc[r].project_dir].tree,
                                                "java_sources/Main.java", <<"class Main {}">>)))
                       ELSE fs
              /\ IF ~success /\ OnFailure("jadx_decompile") = "abort"
                 THEN /\ logs' = [logs EXCEPT ![r] =
                                    @ \o <<"--- JADX Decompilation ---", "JADX STDOUT", "JADX STDERR">>]
                      /\ ret' = [ret EXCEPT ![r] = Returned("JADX decompilation failed.", NoPath)]
                      /\ pc' = [pc EXCEPT ![r] = "done"]
                 ELSE /\ logs' = [logs EXCEPT ![r] =
                                    @ \o <<"--- JADX Decompilation ---", "JADX STDOUT", "JADX STDERR">>
                                      \o (IF success THEN <<>> ELSE <<"JADX decompilation failed.">>)]
                      /\ pc' = [pc EXCEPT ![r] = "zip"]
                      /\ UNCHANGED ret
       ELSE /\ pc' = [pc EXCEPT ![r] = "zip"]
            /\ UNCHANGED <<fs, calls, logs, ret>>
    /\ UNCHANGED <<tools, uuidCtr, inp, loc>>
    /\ UNCHANGED studyVars

\* 9. Create ZIP archive
P_Zip(r) ==
    /\ pc[r] = "zip"
    /\ LET zip_path == MkPath(DOWNLOADS_DIR, Name(loc[r].project_name \o "-decompiled", "zip")) IN
         /\ fs' = create_zip(fs, loc[r].project_dir, zip_path)
         /\ loc' = [loc EXCEPT ![r].zip_path = zip_path]
         /\ calls' = [calls EXCEPT ![r] = Append(@, Call("create_zip", <<PathStr(zip_path)>>, TRUE))]
         /\ logs' = [logs EXCEPT ![r] = Append(@, "Project zipped")]
    /\ pc' = [pc EXCEPT ![r] = "cleanup"]
    /\ UNCHANGED <<tools, uuidCtr, inp, ret>>
    /\ UNCHANGED studyVars

\* 10. Clean up temp project dir
P_Cleanup(r) ==
    /\ pc[r] = "cleanup"
    /\ fs' = rmtree(fs, loc[r].project_dir)
    /\ calls' = [calls EXCEPT ![r] =
                   Append(@, Call("shutil.rmtree", <<PathStr(loc[r].project_dir)>>, TRUE))]
    /\ ret' = [ret EXCEPT ![r] =
                 Returned("Success! Project decompiled and zipped.", loc[r].zip_path)]
    /\ pc' = [pc EXCEPT ![r] = "done"]
    /\ UNCHANGED <<tools, uuidCtr, inp, loc, logs>>
    /\ UNCHANGED studyVars

(***************************************************************************)
(* rebuild_and_sign_apk                                                    *)
(***************************************************************************)
ProjectZips == {NoPath} \cup {Upload(s \o "-decompiled", "zip") : s \in Stems}
KeystoreFiles == {NoPath, Upload("release", "jks")}
BuildOptionLists ==
    {Pick(<<"use_aapt2", "no_crunch">>, c) : c \in SUBSET {"use_aapt2", "no_crunch"}}

UnsignedApk == "rebuilt-unsigned.apk"
\* f"{unsigned_apk_path.stem}-aligned-signed.apk"
SignedApk == "rebuilt-unsigned" \o "-aligned-signed.apk"

StartRebuild(r, zips, keystores, secrets, options) ==
    /\ pc[r] = "idle"
    /\ \E z \in zips, k \in keystores, p \in secrets, a \in secrets, kp \in secrets,
          o \in options :
         inp' = [inp EXCEPT ![r] = [NoInput EXCEPT !.handler = "rebuild_and_sign_apk",
                                       !.project_zip = z, !.keystore_file = k,
                                       !.ks_pass = p, !.alias = a, !.key_pass = kp,
                                       !.build_options = o]]
    /\ pc' = [pc EXCEPT ![r] = "validate"]
    /\ UNCHANGED <<tools, fs, uuidCtr, loc, ret, logs, calls>>
    /\ UNCHANGED studyVars

\* a variant of the input checks that forgets the key password
InputErrorNoKeyPass(i) ==
    IF i.project_zip = NoPath THEN "gr.Error: Please upload a project ZIP file."
    ELSE IF i.keystore_file = NoPath THEN "gr.Error: Please upload a keystore file."
    ELSE IF i.ks_pass = "" \/ i.alias = ""
         THEN "gr.Error: Please provide all keystore credentials."
    ELSE ""

\* the three input checks that open rebuild_and_sign_apk
InputError(i) ==
    IF i.project_zip = NoPath THEN "gr.Error: Please upload a project ZIP file."
    ELSE IF i.keystore_file = NoPath THEN "gr.Error: Please upload a keystore file."
    ELSE IF i.ks_pass = "" \/ i.alias = "" \/ i.key_pass = ""
         THEN "gr.Error: Please provide all keystore credentials."
    ELSE ""

R_Validate(r) ==
    /\ pc[r] = "validate"
    /\ IF InputError(inp[r]) # ""
       THEN /\ ret' = [ret EXCEPT ![r] = Raised(InputError(inp[r]))]
            /\ pc' = [pc EXCEPT ![r] = "done"]
       ELSE /\ pc' = [pc EXCEPT ![r] = "r_setup"]
            /\ UNCHANGED ret
    /\ UNCHANGED <<tools, fs, uuidCtr, inp, loc, logs, calls>>
    /\ UNCHANGED studyVars

\* 1. Setup directories
R_Setup(r) ==
    /\ pc[r] = "r_setup"
    /\ LET project_dir == MkPath(TEMP_DIR, Name("rebuild-" \o uuid4_hex8(uuidCtr + 1), ""))
           output_dir == MkPath(TEMP_DIR, Name("rebuild-out-" \o uuid4_hex8(uuidCtr + 2), ""))
           mk(f, d) == IF Exists(f, d) THEN f ELSE Put(f, d, DirOf(EmptyTree))
       IN /\ uuidCtr' = uuidCtr + 2
          /\ fs' = mk(mk(fs, project_dir), output_dir)
          /\ loc' = [loc EXCEPT ![r].project_dir = project_dir, ![r].output_dir = output_dir]
          /\ calls' = [calls EXCEPT ![r] =
                         @ \o << Call("os.makedirs", <<PathStr(project_dir)>>, TRUE),
                                 Call("os.makedirs", <<PathStr(output_dir)>>, TRUE) >>]
    /\ pc' = [pc EXCEPT ![r] = "unzip"]
    /\ UNCHANGED <<tools, inp, ret, logs>>
    /\ UNCHANGED studyVars

\* 2. Unzip project
R_Unzip(r) ==
    /\ pc[r] = "unzip"
    /\ \/ \* the upload is not a zip archive
          /\ calls' = [calls EXCEPT ![r] =
                         Append(@, Call("extractall", <<PathStr(loc[r].project_dir)>>, FALSE))]
          /\ ret' = [ret EXCEPT ![r] = Raised("zipfile.BadZipFile")]
          /\ pc' = [pc EXCEPT ![r] = "done"]
          /\ UNCHANGED <<fs, logs>>
       \/ \E tree \in DecodedTrees :
            /\ calls' = [calls EXCEPT ![r] =
                           Append(@, Call("extractall", <<PathStr(loc[r].project_dir)>>, TRUE))]
            /\ fs' = Put(fs, loc[r].project_dir, DirOf(tree))
            /\ logs' = [logs EXCEPT ![r] = Append(@, "Project unzipped")]
            /\ pc' = [pc EXCEPT ![r] = "build"]
            /\ UNCHANGED ret
    /\ UNCHANGED <<tools, uuidCtr, inp, loc>>
    /\ UNCHANGED studyVars

\* a variant of the failure cleanup that forgets the output directory
FailureCleanupProjectOnly(f, project_dir, output_dir) == rmtree(f, project_dir)

\* shutil.rmtree(project_dir); shutil.rmtree(output_dir) before a failure return
FailureCleanup(f, project_dir, output_dir) == rmtree(rmtree(f, project_dir), output_dir)

\* 3. Rebuild with Apktool
R_Build(r) ==
    /\ pc[r] = "build"
    /\ \E success \in {s \in BOOLEAN : s => (JavaRuns(tools) /\ tools.apktool)} :
         /\ calls' = [calls EXCEPT ![r] =
                        Append(@, Call("apktool_build",
                                       apktool_build_cmd(loc[r].project_dir,
                                                         MkPath(PathStr(loc[r].output_dir),
                                                                Name("rebuilt-unsigned", "apk")),
                                                         build_opts(inp[r].build_options)),
                                       success))]
         /\ logs' = [logs EXCEPT ![r] =
                       @ \o <<"--- Apktool Rebuild ---", "Apktool STDOUT", "Apktool STDERR">>]
         /\ LET built == IF success
                         THEN Put(fs, loc[r].output_dir,
                                  DirOf(WriteFile(fs[loc[r].output_dir].tree, UnsignedApk,
                                                  <<"unsigned">>)))
                         ELSE fs
            IN IF ~success /\ OnFailure("apktool_build") = "abort"
               THEN /\ fs' = FailureCleanup(built, loc[r].project_dir, loc[r].output_dir)
                    /\ ret' = [ret EXCEPT ![r] = Returned("Apktool rebuild failed.", NoPath)]
                    /\ pc' = [pc EXCEPT ![r] = "done"]
               ELSE /\ fs' = built
                    /\ pc' = [pc EXCEPT ![r] = "sign"]
                    /\ UNCHANGED ret
    /\ UNCHANGED <<tools, uuidCtr, inp, loc>>
    /\ UNCHANGED studyVars

\* names under which the signer may leave its output when it exits zero
SignerOutputs == {SignedApk, "rebuilt-unsigned-aligned-debugSigned.apk"}

\* 4. Sign the APK
R_Sign(r) ==
    /\ pc[r] = "sign"
    /\ \E success \in {s \in BOOLEAN : s => (JavaRuns(tools) /\ tools.signer)},
          out \in SignerOutputs :
         /\ calls' = [calls EXCEPT ![r] =
                        Append(@, Call("sign_apk",
                                       sign_apk_cmd(MkPath(PathStr(loc[r].output_dir),
                                                           Name("rebuilt-unsigned", "apk")),
                                                    inp[r].keystore_file, inp[r].ks_pass,
                                                    inp[r].alias, inp[r].key_pass),
                                       success))]
         /\ logs' = [logs EXCEPT ![r] =
                       @ \o <<"--- Signing APK ---", "Signer STDOUT", "Signer STDERR">>]
         /\ LET signed == IF success /\ UnsignedApk \in DOMAIN fs[loc[r].output_dir].tree
                          THEN Put(fs, loc[r].output_dir,
                                   DirOf(WriteFile(fs[loc[r].output_dir].tree, out, <<"signed">>)))
                          ELSE fs
            IN IF ~success /\ OnFailure("sign_apk") = "abort"
               THEN /\ fs' = FailureCleanup(signed, loc[r].project_dir, loc[r].output_dir)
                    /\ ret' = [ret EXCEPT ![r] = Returned("Signing failed.", NoPath)]
                    /\ pc' = [pc EXCEPT ![r] = "done"]
               ELSE /\ fs' = signed
                    /\ pc' = [pc EXCEPT ![r] = "move"]
                    /\ UNCHANGED ret
    /\ UNCHANGED <<tools, uuidCtr, inp, loc>>
    /\ UNCHANGED studyVars

\* a variant of the artifact name that does not depend on the upload
final_apk_name_fixed(project_zip) == Name("rebuilt-signed", "apk")

\* f"{Path(project_zip.name).stem}-signed.apk"
final_apk_name(project_zip) == Name(project_zip.name.stem \o "-signed", "apk")

\* shutil.move(signed_apk_path, final_apk_path)
R_Move(r) ==
    /\ pc[r] = "move"
    /\ LET out_tree == fs[loc[r].output_dir].tree
           final_apk_path == MkPath(DOWNLOADS_DIR, final_apk_name(inp[r].project_zip))
       IN IF SignedApk \in DOMAIN out_tree
          THEN /\ fs' = Put(Put(fs, final_apk_path, FileOf(out_tree[SignedApk])),
                            loc[r].output_dir,
                            DirOf([x \in DOMAIN out_tree \ {SignedApk} |-> out_tree[x]]))
               /\ loc' = [loc EXCEPT ![r].final_apk_path = final_apk_path]
               /\ calls' = [calls EXCEPT ![r] =
                              Append(@, Call("shutil.move", <<PathStr(final_apk_path)>>, TRUE))]
               /\ pc' = [pc EXCEPT ![r] = "r_cleanup"]
               /\ UNCHANGED ret
          ELSE /\ calls' = [calls EXCEPT ![r] =
                              Append(@, Call("shutil.move", <<PathStr(final_apk_path)>>, FALSE))]
               /\ ret' = [ret EXCEPT ![r] = Raised("FileNotFoundError")]
               /\ pc' = [pc EXCEPT ![r] = "done"]
               /\ UNCHANGED <<fs, loc>>
    /\ UNCHANGED <<tools, uuidCtr, inp, logs>>
    /\ UNCHANGED studyVars

\* 5. Cleanup
R_Cleanup(r) ==
    /\ pc[r] = "r_cleanup"
    /\ fs' = rmtree(rmtree(fs, loc[r].project_dir), loc[r].output_dir)
    /\ calls' = [calls EXCEPT ![r] =
                   @ \o << Call("shutil.rmtree", <<PathStr(loc[r].project_dir)>>, TRUE),
                           Call("shutil.rmtree", <<PathStr(loc[r].output_dir)>>, TRUE) >>]
    /\ ret' = [ret EXCEPT ![r] =
                 Returned("Success! APK rebuilt and signed.", loc[r].final_apk_path)]
    /\ pc' = [pc EXCEPT ![r] = "done"]
    /\ UNCHANGED <<tools, uuidCtr, inp, loc, logs>>
    /\ UNCHANGED studyVars

(***************************************************************************)
(* Archive study: create_zip on a directory tree, then the unpacking that  *)
(* opens rebuild_and_sign_apk.  Here a path is a sequence of names and the *)
(* tree has its directories, so that os.walk, os.path.join and             *)
(* os.path.relpath are computed; the project trees above are the result:   *)
(* files by relative path.                                                 *)
(***************************************************************************)
DirNode == [kind |-> "dir", data |-> <<>>]
FileNode(text) == [kind |-> "file", data |-> text]
ZipNode == [kind |-> "zip", data |-> <<>>]

IsPrefix(p, q) == Len(p) <= Len(q) /\ SubSeq(q, 1, Len(p)) = p

\* the directories above p
Ancestors(p) == {SubSeq(p, 1, n) : n \in 1..(Len(p) - 1)}

os_path_join(root, name) == Append(root, name)

os_path_dirname(p) == SubSeq(p, 1, Len(p) - 1)

\* a variant of the archive name that keeps only the file's own name
os_path_basename(path, start) == <<path[Len(path)]>>

\* os.path.relpath(path, start), for a path under start
os_path_relpath(path, start) == SubSeq(path, Len(start) + 1, Len(path))

\* os.walk(top): every directory at or under top, with the names of its files
os_walk(d, top) ==
    {[root |-> p,
      files |-> {q[Len(q)] : q \in {q \in DOMAIN d : d[q].kind = "file"
                                                      /\ os_path_dirname(q) = p}}] :
        p \in {p \in DOMAIN d : d[p].kind = "dir" /\ IsPrefix(top, p)}}

\* the members create_zip writes: zipf.write(file_path, archive_path) per file
zipf_write(d, source_dir) ==
    UNION {{LET file_path == os_path_join(w.root, file)
                archive_path == os_path_relpath(file_path, source_dir)
            IN  [name |-> archive_path, data |-> d[file_path].data] : file \in w.files} :
              w \in os_walk(d, source_dir)}

\* os.makedirs(path, exist_ok=True)
os_makedirs(d, path) ==
    [p \in DOMAIN d \cup Ancestors(path) \cup {path} |->
        IF p \in DOMAIN d THEN d[p] ELSE DirNode]

\* zip_ref.extractall(path): each member is written under path, its parent
\* directories created as needed
extractall(d, members, path) ==
    LET targets == {path \o m.name : m \in members}
        upperdirs == UNION {Ancestors(t) : t \in targets}
    IN  [p \in DOMAIN d \cup upperdirs \cup targets |->
            IF p \in targets
            THEN FileNode((CHOOSE m \in members : path \o m.name = p).data)
            ELSE IF p \in DOMAIN d THEN d[p] ELSE DirNode]

ZNames == {"a", "b"}
ZData == {<<"x">>, <<"y">>}

SourceDir == <<"temp", "sample-decompiled-1">>
DestDir == <<"temp", "rebuild-2">>
ZipFilePath == <<"downloads", "sample-decompiled.zip">>

\* relative file paths of the trees packaged: up to MaxDepth directories deep
RelPaths == UNION {[1..n -> ZNames] : n \in 1..(MaxDepth + 1)}

RECURSIVE PathSets(_)
PathSets(n) ==
    IF n = 0 THEN {{}}
    ELSE PathSets(n - 1) \cup {s \cup {p} : s \in PathSets(n - 1), p \in RelPaths}

\* sets of at most MaxFiles file paths of which none is a directory of another
FileSets ==
    {s \in PathSets(MaxFiles) : \A p, q \in s : p # q => ~IsPrefix(p, q)}

\* the tree holding the files of `data` under SourceDir
MkDisk(data, emptyDir, destExists) ==
    LET files == {SourceDir \o p : p \in DOMAIN data}
        dirs == {SourceDir, <<"downloads">>} \cup Ancestors(SourceDir)
                \cup UNION {Ancestors(f) : f \in files}
                \cup (IF emptyDir THEN {SourceDir \o <<"empty">>} ELSE {})
                \cup (IF destExists THEN {DestDir} ELSE {})
    IN  [p \in files \cup dirs |->
            IF p \in files THEN FileNode(data[SubSeq(p, Len(SourceDir) + 1, Len(p))])
            ELSE DirNode]

ZipDisks ==
    {MkDisk(data, e, x) : data \in UNION {[s -> ZData] : s \in FileSets},
                          e \in BOOLEAN, x \in BOOLEAN}

\* processor.create_zip(project_dir, zip_path)
Z_CreateZip ==
    /\ zpc = "start"
    /\ zarchive' = zipf_write(zdisk, SourceDir)
    /\ zdisk' = [p \in DOMAIN zdisk \cup {ZipFilePath} |->
                    IF p = ZipFilePath THEN ZipNode ELSE zdisk[p]]
    /\ zpc' = "zipped"
    /\ UNCHANGED <<pipeVars, patchVars, optVars>>

\* os.makedirs(project_dir, exist_ok=True); zip_ref.extractall(project_dir)
Z_Extract ==
    /\ zpc = "zipped"
    /\ zdisk' = extractall(os_makedirs(zdisk, DestDir), zarchive, DestDir)
    /\ zpc' = "extracted"
    /\ UNCHANGED <<pipeVars, patchVars, optVars, zarchive>>

(***************************************************************************)
(* Option study: the command lines built from one token list, presented as *)
(* given, reversed and repeated                                            *)
(***************************************************************************)
\* the values of the two checkbox groups, and a token neither group has
OptionTokens ==
    { "quark_analysis", "decompile_java", "mitm_patch", "deobf", "show_bad_code",
      "no_src", "no_res", "force_manifest", "no_assets", "only_main_classes",
      "no_debug_info", "use_aapt2", "no_crunch", "unknown_token" }

TokenLists == UNION {[1..n -> OptionTokens] : n \in 0..MaxTokens}

Presentations == {"given", "reversed", "repeated"}

Reverse(s) == [i \in 1..Len(s) |-> s[Len(s) + 1 - i]]

Present(tokens, how) ==
    CASE how = "given" -> tokens
      [] how = "reversed" -> Reverse(tokens)
      [] how = "repeated" -> tokens \o tokens

StudyApk == Upload("sample", "apk")
StudyProjectDir == MkPath(TEMP_DIR, Name("sample-decompiled-1", ""))
StudyRebuildDir == MkPath(TEMP_DIR, Name("rebuild-2", ""))
StudyOutputDir == MkPath(TEMP_DIR, Name("rebuild-out-3", ""))

\* 4. Parse options of process_apk and 3. Rebuild of rebuild_and_sign_apk, up
\* to the command lines handed to _run_command
ParseOptions ==
    /\ \E how \in Presentations :
         /\ \A c \in optCmds : c.how # how
         /\ LET options == Present(optTokens, how) IN
              optCmds' = optCmds \cup
                {[ how |-> how,
                   decode |-> apktool_decode_cmd(StudyApk, StudyProjectDir,
                                                 apktool_opts(options)),
                   jadx |-> jadx_decompile_cmd(StudyApk, StudyProjectDir, jadx_opts(options)),
                   build |-> apktool_build_cmd(StudyRebuildDir,
                                               MkPath(PathStr(StudyOutputDir),
                                                      Name("rebuilt-unsigned", "apk")),
                                               build_opts(options)) ]}
    /\ UNCHANGED <<pipeVars, patchVars, zipVars, optTokens>>

(***************************************************************************)
(* Specifications                                                          *)
(***************************************************************************)
\* the variables of a study while another specification runs
NoPatchStudy == proj = EmptyTree /\ applied = <<>>
NoZipStudy == zdisk = <<>> /\ zarchive = {} /\ zpc = "off"
NoOptStudy == optTokens = <<>> /\ optCmds = {}

\* no handler has been invoked
PipelineIdle ==
    /\ tools = AllTools
    /\ fs = [x \in {} |-> DirOf(EmptyTree)]
    /\ uuidCtr = 0
    /\ pc = [r \in Runs |-> "idle"]
    /\ inp = [r \in Runs |-> NoInput]
    /\ loc = [r \in Runs |-> NoLocals]
    /\ ret = [r \in Runs |-> NoReturn]
    /\ logs = [r \in Runs |-> <<>>]
    /\ calls = [r \in Runs |-> <<>>]

Init ==
    /\ tools \in [java : JavaOutcomes, apktool : BOOLEAN, signer : BOOLEAN, jadx : BOOLEAN]
    /\ fs = [x \in {} |-> DirOf(EmptyTree)]
    /\ uuidCtr = 0
    /\ pc = [r \in Runs |-> "idle"]
    /\ inp = [r \in Runs |-> NoInput]
    /\ loc = [r \in Runs |-> NoLocals]
    /\ ret = [r \in Runs |-> NoReturn]
    /\ logs = [r \in Runs |-> <<>>]
    /\ calls = [r \in Runs |-> <<>>]
    /\ NoPatchStudy
    /\ NoZipStudy
    /\ NoOptStudy

Step(r) ==
    \/ P_CheckTools(r) \/ P_Input(r) \/ P_Setup(r) \/ P_Decode(r) \/ P_Patch(r)
    \/ P_Quark(r) \/ P_Jadx(r) \/ P_Zip(r) \/ P_Cleanup(r)
    \/ R_Validate(r) \/ R_Setup(r) \/ R_Unzip(r) \/ R_Build(r) \/ R_Sign(r)
    \/ R_Move(r) \/ R_Cleanup(r)

Secrets == {"", "secret"}

\* one handler invocation, any arguments
Start(r) ==
    \/ StartProcess(r, ApkFiles, ApkUrls, DecodeOptionLists)
    \/ StartRebuild(r, ProjectZips, KeystoreFiles, Secrets, BuildOptionLists)

Next == \E r \in {1} : Start(r) \/ Step(r)

Spec == Init /\ [][Next]_vars

\* overlapping invocations with complete arguments and all tools installed
StartConc(r) ==
    \/ StartProcess(r, {Upload("sample", "apk"), NoPath},
                     {Url(Name("sample", "apk"))}, {<<>>, StageTokens})
    \/ StartRebuild(r, {Upload("sample-decompiled", "zip")}, {Upload("release", "jks")},
                     {"secret"}, {<<>>})

InitConc == Init /\ tools = AllTools

NextConc == \E r \in Runs : StartConc(r) \/ Step(r)

SpecConc == InitConc /\ [][NextConc]_vars

\* mitm_patch applied to one project, MaxApply times
PatchTrees == {BaseTree} \cup {WriteFile(BaseTree, ManifestFile, m) : m \in Manifests}

InitPatchStudy ==
    /\ tools = AllTools
    /\ fs = [x \in {} |-> DirOf(EmptyTree)]
    /\ uuidCtr = 0
    /\ pc = [r \in Runs |-> "idle"]
    /\ inp = [r \in Runs |-> NoInput]
    /\ loc = [r \in Runs |-> NoLocals]
    /\ ret = [r \in Runs |-> NoReturn]
    /\ logs = [r \in Runs |-> <<>>]
    /\ calls = [r \in Runs |-> <<>>]
    /\ proj \in PatchTrees
    /\ applied = <<>>
    /\ NoZipStudy
    /\ NoOptStudy

NextPatch == ApplyPatch

SpecPatch == InitPatchStudy /\ [][NextPatch]_vars

\* one tree packaged by create_zip and unpacked as rebuild_and_sign_apk does
InitZipStudy ==
    /\ PipelineIdle
    /\ NoPatchStudy
    /\ NoOptStudy
    /\ zdisk \in ZipDisks
    /\ zarchive = {}
    /\ zpc = "start"

NextZip == Z_CreateZip \/ Z_Extract

SpecZip == InitZipStudy /\ [][NextZip]_vars

\* one token list, its command lines built under each presentation
InitOptStudy ==
    /\ PipelineIdle
    /\ NoPatchStudy
    /\ NoZipStudy
    /\ optTokens \in TokenLists
    /\ optCmds = {}

NextOpt == ParseOptions

SpecOpt == InitOptStudy /\ [][NextOpt]_vars


(***************************************************************************)
(* Properties                                                              *)
(***************************************************************************)
IsProcess(r) == inp[r].handler = "process_apk"
IsRebuild(r) == inp[r].handler = "rebuild_and_sign_apk"

LaterStages == {"mitm_patch", "quark_analyze", "jadx_decompile", "create_zip"}
AnalysisTools == {"apktool_decode", "mitm_patch", "quark_analyze", "jadx_decompile"}

SuccessStatus == "Success! Project decompiled and zipped."

ZipPathOf(r) == MkPath(DOWNLOADS_DIR, Name(loc[r].project_name \o "-decompiled", "zip"))

\* C1: when apktool decode reports failure, process_apk has returned the
\* failure status "Apktool failed." with no archive, and no later stage (MITM
\* patch, Quark, JADX, create_zip) has run, whatever tokens were selected.
C1_DecodeFailureIsFatal ==
    \A r \in Runs :
        Failed(r, "apktool_decode") =>
            /\ Ended(r)
            /\ ret[r] = Returned("Apktool failed.", NoPath)
            /\ Ops(r) \cap LaterStages = {}
            /\ loc[r].zip_path = NoPath
            /\ ~Exists(fs, ZipPathOf(r))

C1_Witness ==
    \E r \in Runs :
        /\ Failed(r, "apktool_decode")
        /\ Ended(r)
        /\ \A t \in Range(StageTokens) : In(t, inp[r].decode_options)

Created(r) == {loc[r].opened, loc[r].project_dir, loc[r].output_dir} \ {NoPath}

\* C3: after a run of either handler has ended, by success or by a fatal
\* failure, every working or output directory and temporary file it created
\* has been removed.
C3_NothingLeftBehind ==
    \A r \in Runs : Ended(r) => \A p \in Created(r) : ~Exists(fs, p)

\* C4: in every run of either handler the tool check comes first, and with a
\* dependency missing the run ends with the error naming it before any
\* directory is created and before any other tool is invoked.
C4_ToolCheckFirst ==
    \A r \in Runs :
        /\ calls[r] # <<>> => calls[r][1].op = "check_tools"
        /\ (pc[r] # "idle" /\ ~check_tools(tools).ok) =>
              /\ Ops(r) \subseteq {"check_tools"}
              /\ Created(r) = {}
              /\ Ended(r) =>
                   /\ ret[r] = Returned("Error: Tools are not configured correctly.", NoPath)
                   /\ ("--- Tool Check ---\n" \o check_tools(tools).msg) \in Range(logs[r])

\* some argument of rebuild_and_sign_apk is absent or empty
MissingInput(i) ==
    \/ i.project_zip = NoPath
    \/ i.keystore_file = NoPath
    \/ i.ks_pass = ""
    \/ i.alias = ""
    \/ i.key_pass = ""

\* C5: rebuild_and_sign_apk with the project archive, the keystore file or one
\* of the three credentials absent or empty ends with an input error, and has
\* created no directory, unpacked nothing and invoked no tool.
C5_MissingInputRejected ==
    \A r \in Runs :
        (IsRebuild(r) /\ MissingInput(inp[r])) =>
            /\ pc[r] \in {"validate", "done"}
            /\ Ended(r) => (ret[r].raised # "" /\ ret[r].status = "" /\ ret[r].artifact = NoPath)
            /\ calls[r] = <<>>
            /\ loc[r] = NoLocals
            /\ uuidCtr = 0
            /\ DOMAIN fs = {}

C5_Witness ==
    \E r \in Runs :
        /\ IsRebuild(r) /\ Ended(r)
        /\ inp[r].project_zip # NoPath /\ inp[r].keystore_file # NoPath
        /\ inp[r].ks_pass # "" /\ inp[r].alias # "" /\ inp[r].key_pass = ""
        /\ ret[r].raised = "gr.Error: Please provide all keystore credentials."

FinalApkPathOf(r) ==
    MkPath(DOWNLOADS_DIR, Name(inp[r].project_zip.name.stem \o "-signed", "apk"))

\* C6: a failed build or a failed sign ends rebuild_and_sign_apk with a failure
\* status and no artifact; after a failed build the signer is not invoked,
\* nothing is moved to the downloads directory, and both working directories
\* are gone when the call returns.
C6_BuildSignFailureAborts ==
    \A r \in Runs :
        (Failed(r, "apktool_build") \/ Failed(r, "sign_apk")) =>
            /\ Ended(r)
            /\ ret[r] \in {Returned("Apktool rebuild failed.", NoPath),
                           Returned("Signing failed.", NoPath)}
            /\ Failed(r, "apktool_build") => "sign_apk" \notin Ops(r)
            /\ "shutil.move" \notin Ops(r)
            /\ ~Exists(fs, FinalApkPathOf(r))
            /\ loc[r].project_dir # NoPath /\ ~Exists(fs, loc[r].project_dir)
            /\ loc[r].output_dir # NoPath /\ ~Exists(fs, loc[r].output_dir)

C6_Witness ==
    \E r \in Runs :
        /\ Succeeded(r, "apktool_build")
        /\ Failed(r, "sign_apk")
        /\ Ended(r)

\* every path a run has written: its download, directories and artifact
Written(r) == Created(r) \cup ({loc[r].zip_path, loc[r].final_apk_path} \ {NoPath})

\* C7: two runs in progress at the same time never have a written path in
\* common: each run's download, working directories and artifact are its own.
C7_RunsShareNoPath ==
    \A r, q \in Runs :
        (r # q /\ Active(r) /\ Active(q)) => Written(r) \cap Written(q) = {}

\* C8: a response without content-length and with a non-empty body is
\* downloaded: download_apk returns the local path and process_apk goes on to
\* decode instead of ending with a download error.
C8_MissingLengthIsNoFailure ==
    \A r \in Runs :
        ( /\ loc[r].requested
          /\ loc[r].resp.error = ""
          /\ loc[r].resp.content_length = NoHeader
          /\ loc[r].resp.chunks > 0 ) =>
            /\ loc[r].apk_path # NoPath
            /\ Succeeded(r, "download_apk")
            /\ Ended(r) => "apktool_decode" \in Ops(r)

\* C9: a transport failure of the download (connection error, HTTP error
\* status) ends process_apk with a failure status and no artifact, with no
\* project directory created and no decode, analysis or decompile tool run.
C9_TransportFailureAborts ==
    \A r \in Runs :
        (loc[r].requested /\ loc[r].resp.error # "") =>
            /\ Ended(r)
            /\ ret[r] = Returned("Error downloading APK: gr.Error", NoPath)
            /\ loc[r].project_dir = NoPath
            /\ \A p \in DOMAIN fs : fs[p].kind # "dir"
            /\ Ops(r) \cap (AnalysisTools \cup {"os.makedirs", "create_zip"}) = {}

C9_Witness ==
    \E r \in Runs :
        /\ loc[r].requested
        /\ loc[r].resp.error = "HTTPError"
        /\ Ended(r)

\* C10: on a project that has a manifest, every application of mitm_patch after
\* the first leaves the manifest text as the first application left it, with
\* as many occurrences of the attribute name as it had then.
C10_PatchIdempotent ==
    \A i \in 2..Len(applied) :
        applied[1].before # NoManifest =>
            /\ applied[i].manifest = applied[1].manifest
            /\ str_count(applied[i].manifest, AttrName)
                 = str_count(applied[1].manifest, AttrName)

C10_Witness ==
    /\ Len(applied) >= 2
    /\ applied[1].before # NoManifest
    /\ applied[1].manifest # applied[1].before
    /\ str_count(applied[2].manifest, AttrName) = 1

\* the files under root: relative path and content of each
FilesUnder(d, root) ==
    {<<SubSeq(p, Len(root) + 1, Len(p)), d[p].data>> :
        p \in {p \in DOMAIN d : d[p].kind = "file" /\ IsPrefix(root, p)}}

\* C11: the archive create_zip writes has one member per file under the
\* packaged directory, named by the file's relative path, and unpacking it into
\* a directory that is empty or does not exist yet leaves there exactly the
\* same relative file paths with the same contents, nested directories
\* included, while the packaged directory itself is untouched.
C11_ArchiveRoundTrip ==
    /\ zpc \in {"zipped", "extracted"} =>
          {<<m.name, m.data>> : m \in zarchive} = FilesUnder(zdisk, SourceDir)
    /\ zpc = "extracted" =>
          FilesUnder(zdisk, DestDir) = FilesUnder(zdisk, SourceDir)

C11_Witness ==
    /\ zpc = "extracted"
    /\ Cardinality(FilesUnder(zdisk, DestDir)) = 2
    /\ DestDir \o <<"a", "b", "a">> \in DOMAIN zdisk
    /\ DestDir \o <<"b", "a">> \in DOMAIN zdisk
    /\ zdisk[DestDir \o <<"a", "b", "a">>].data # zdisk[DestDir \o <<"b", "a">>].data

\* C12: the project directory of a process_apk run exists from its creation
\* until the cleanup step; cleanup runs only after create_zip has written the
\* archive, and a run that packaged has deleted the directory when it returns,
\* optional stages failed or not; after a failed decode the run has returned
\* and the directory is still there.
C12_ProjectDirDeletedIffPackaged ==
    \A r \in Runs :
        (IsProcess(r) /\ loc[r].project_dir # NoPath) =>
            /\ Exists(fs, loc[r].project_dir) <=> "shutil.rmtree" \notin Ops(r)
            /\ "shutil.rmtree" \in Ops(r) =>
                  ("create_zip" \in Ops(r) /\ Exists(fs, ZipPathOf(r)))
            /\ (Ended(r) /\ "create_zip" \in Ops(r)) => ~Exists(fs, loc[r].project_dir)
            /\ Failed(r, "apktool_decode") => (Ended(r) /\ Exists(fs, loc[r].project_dir))

C12_Witness ==
    \E r \in Runs :
        /\ IsProcess(r) /\ Ended(r)
        /\ Failed(r, "quark_analyze") /\ Failed(r, "jadx_decompile")
        /\ "create_zip" \in Ops(r)
        /\ loc[r].project_dir # NoPath /\ ~Exists(fs, loc[r].project_dir)

InputErrorRaised == Raised("gr.Error: Please upload an APK file or provide a URL.")
ToolErrorReturned == Returned("Error: Tools are not configured correctly.", NoPath)

\* process_apk was called with neither an uploaded file nor a URL
NothingToProcess(r) ==
    IsProcess(r) /\ inp[r].apk_file = NoPath /\ inp[r].apk_url = NoUrl

\* nothing was created, downloaded or run besides the tool check
NoSideEffect(r) ==
    /\ Ops(r) \subseteq {"check_tools"}
    /\ loc[r] = NoLocals
    /\ uuidCtr = 0
    /\ DOMAIN fs = {}

\* C13 (as stated): process_apk called with neither an uploaded file nor a URL
\* ends with the input error, having created no project directory, downloaded
\* nothing and invoked no decode tool.
C13_NoInputIsInputError ==
    \A r \in Runs :
        NothingToProcess(r) =>
            /\ NoSideEffect(r)
            /\ Ended(r) => ret[r] = InputErrorRaised

\* C13 (amended): process_apk called with neither an uploaded file nor a URL
\* ends with the input error when the tool check passes and with the tool
\* configuration error when a dependency is missing; either way it has created
\* no project directory, downloaded nothing and invoked no decode tool.
C13_NoInputRejected ==
    \A r \in Runs :
        NothingToProcess(r) =>
            /\ NoSideEffect(r)
            /\ pc[r] \in {"check_tools", "input", "done"}
            /\ Ended(r) =>
                  ret[r] = (IF check_tools(tools).ok THEN InputErrorRaised
                            ELSE ToolErrorReturned)

C13_Witness ==
    \E r \in Runs :
        /\ NothingToProcess(r) /\ Ended(r)
        /\ Succeeded(r, "check_tools")
        /\ ret[r] = InputErrorRaised

\* the lookup tables: token and flag, in the order the flags are emitted
DecodeTable ==
    << <<"no_src", "-s">>, <<"no_res", "-r">>, <<"force_manifest", "--force-manifest">>,
       <<"no_assets", "--no-assets">>, <<"only_main_classes", "--only-main-classes">>,
       <<"no_debug_info", "-b">> >>
JadxTable == << <<"deobf", "--deobf">>, <<"show_bad_code", "--show-bad-code">> >>
BuildTable == << <<"no_crunch", "--no-crunch">>, <<"use_aapt2", "--use-aapt2">> >>

\* the flags of the table's tokens that are in the set `chosen`, in table order
FlagsOf(table, chosen) ==
    LET sel == SelectSeq(table, LAMBDA e : e[1] \in chosen)
    IN  [i \in 1..Len(sel) |-> sel[i][2]]

\* C14: however the token list is presented (as given, reversed, or with every
\* token repeated), the decoder, decompiler and builder command lines are the
\* fixed arguments followed by the flags of the set of tokens, each once and in
\* table order; tokens outside the table add nothing.  With no token the
\* decoder arguments are d <apk> -o <dir> -f, and with {use_aapt2} the builder
\* arguments are b <project> -o <output dir>/rebuilt-unsigned.apk --use-aapt2.
C14_FlagsFollowTokenSet ==
    \A c \in optCmds :
        LET chosen == Range(optTokens)
            tool(cmd) == SubSeq(cmd, 4, Len(cmd))   \* after java -jar apktool.jar
        IN  /\ c.decode = <<"java", "-jar", "tools/apktool.jar", "d", "gradio/sample.apk",
                             "-o", "temp/sample-decompiled-1", "-f">>
                           \o FlagsOf(DecodeTable, chosen)
            /\ c.jadx = <<"tools/jadx/bin/jadx", "-r", "-q", "-ds",
                           "temp/sample-decompiled-1/java_sources">>
                         \o FlagsOf(JadxTable, chosen) \o <<"gradio/sample.apk">>
            /\ c.build = <<"java", "-jar", "tools/apktool.jar", "b", "temp/rebuild-2", "-o",
                            "temp/rebuild-out-3/rebuilt-unsigned.apk">>
                          \o FlagsOf(BuildTable, chosen)
            /\ chosen = {} =>
                  tool(c.decode) = <<"d", "gradio/sample.apk", "-o",
                                     "temp/sample-decompiled-1", "-f">>
            /\ chosen = {"use_aapt2"} =>
                  tool(c.build) = <<"b", "temp/rebuild-2", "-o",
                                    "temp/rebuild-out-3/rebuilt-unsigned.apk", "--use-aapt2">>

C14_Witness ==
    /\ optTokens = <<"no_res", "unknown_token", "no_src">>
    /\ Cardinality(optCmds) = 3
    /\ \A c \in optCmds :
          c.decode = <<"java", "-jar", "tools/apktool.jar", "d", "gradio/sample.apk",
                       "-o", "temp/sample-decompiled-1", "-f", "-s", "-r">>

RebuildSuccess == "Success! APK rebuilt and signed."

\* build and sign have both reported success in a run that has ended
BuiltAndSigned(r) ==
    /\ IsRebuild(r) /\ Ended(r)
    /\ Succeeded(r, "apktool_build") /\ Succeeded(r, "sign_apk")

\* the run returned the signed APK under the upload's name and removed its
\* working directories
EndedWithArtifact(r) ==
    /\ ret[r] = Returned(RebuildSuccess, FinalApkPathOf(r))
    /\ Exists(fs, FinalApkPathOf(r))
    /\ fs[FinalApkPathOf(r)] = FileOf(<<"signed">>)
    /\ ~Exists(fs, loc[r].project_dir)
    /\ ~Exists(fs, loc[r].output_dir)

StageRank(op) ==
    CASE op = "check_tools" -> 1
      [] op = "download_apk" -> 2
      [] op = "os.makedirs" -> 3
      [] op = "apktool_decode" -> 4
      [] op = "mitm_patch" -> 5
      [] op = "quark_analyze" -> 6
      [] op = "jadx_decompile" -> 7
      [] op = "create_zip" -> 8
      [] op = "shutil.rmtree" -> 9

\* the optional stages and the token that selects each
OptionalStages ==
    { <<"mitm_patch", "mitm_patch">>, <<"quark_analyze", "quark_analysis">>,
      <<"jadx_decompile", "decompile_java">> }

\* C16: the operations of a process_apk run are in pipeline order (tool check,
\* download if any, directory, decode, patch, analyze, decompile, package,
\* cleanup), none of them twice, with the input settled before decode; an
\* optional stage has run only if its token is selected and decode succeeded,
\* and has run in every ended run where both are so.
C16_StagesInOrder ==
    \A r \in Runs :
        IsProcess(r) =>
            /\ \A i, j \in DOMAIN calls[r] :
                  i < j => StageRank(calls[r][i].op) < StageRank(calls[r][j].op)
            /\ "apktool_decode" \in Ops(r) => loc[r].apk_path # NoPath
            /\ \A st \in OptionalStages :
                  LET selected == st[2] \in Range(inp[r].decode_options) IN
                    /\ st[1] \in Ops(r) => (selected /\ Succeeded(r, "apktool_decode"))
                    /\ (Ended(r) /\ selected /\ Succeeded(r, "apktool_decode"))
                          => st[1] \in Ops(r)

C16_Witness ==
    \E r \in Runs :
        /\ IsProcess(r) /\ Ended(r)
        /\ Range(inp[r].decode_options) = {"quark_analysis", "decompile_java"}
        /\ [i \in DOMAIN calls[r] |-> calls[r][i].op]
             = <<"check_tools", "download_apk", "os.makedirs", "apktool_decode",
                 "quark_analyze", "jadx_decompile", "create_zip", "shutil.rmtree">>

\* the start tag of the application element: from the first `<application` up
\* to the `>` that closes it
RootTagStart(t) == str_find(t, OpenTag)
RootTagEnd(t) ==
    LET ends == {j \in RootTagStart(t)..Len(t) : t[j] = ">"}
    IN  IF ends = {} THEN Len(t) ELSE CHOOSE j \in ends : \A k \in ends : j <= k
RootTag(t) == SubSeq(t, RootTagStart(t), RootTagEnd(t))

\* t with the attribute inserted after the first `<application`, nothing else
\* touched
WithAttrOnRoot(t) ==
    SubSeq(t, 1, RootTagStart(t) - 1)
    \o OpenTag \o <<" ">> \o AttrName \o AttrValue
    \o SubSeq(t, RootTagStart(t) + Len(OpenTag), Len(t))

\* C17 (as stated): when the manifest has an application element whose start
\* tag does not carry the attribute, mitm_patch leaves the manifest with the
\* attribute inserted once in that start tag and nothing else changed, whatever
\* else the text contains.
C17_AttrInsertedOnRoot ==
    \A i \in DOMAIN applied :
        ( /\ applied[i].before # NoManifest
          /\ RootTagStart(applied[i].before) > 0
          /\ ~Contains(RootTag(applied[i].before), AttrName) ) =>
            applied[i].manifest = WithAttrOnRoot(applied[i].before)

\* C17 (amended): mitm_patch leaves a manifest unchanged when the attribute
\* name occurs anywhere in its text; otherwise it inserts the attribute after
\* every occurrence of `<application` and changes nothing else, so a text with
\* exactly one occurrence has the attribute once, in that start tag.
C17_AttrInsertedTextually ==
    \A i \in DOMAIN applied :
        applied[i].before # NoManifest =>
            LET before == applied[i].before
                after == applied[i].manifest
                inserted == <<" ">> \o AttrName \o AttrValue
            IN  IF Contains(before, AttrName)
                THEN after = before
                ELSE /\ str_count(after, inserted) = str_count(before, OpenTag)
                     /\ str_count(after, OpenTag \o inserted) = str_count(before, OpenTag)
                     /\ str_replace(after, inserted, <<>>) = before
                     /\ str_count(before, OpenTag) = 1 => after = WithAttrOnRoot(before)

C17_Witness ==
    /\ Len(applied) >= 1
    /\ applied[1].before = FragManifestOpen \o FragComment \o OpenTag
    /\ applied[1].manifest = FragManifestOpen \o FragComment \o OpenTag
                               \o <<" ">> \o AttrName \o AttrValue

\* C18: in process_apk, mitm_patch on a project directory without
\* AndroidManifest.xml reports failure and nothing is raised; its message is in
\* the log, the run can always take its next step, and it ends with the success
\* status and an archive that holds the project as the patch left it.
C18_MissingManifestIsNotFatal ==
    \A r \in Runs :
        (IsProcess(r) /\ "mitm_patch" \in Ops(r)) =>
            /\ Exists(fs, loc[r].project_dir) =>
                  (Failed(r, "mitm_patch")
                     <=> "AndroidManifest.xml" \notin DOMAIN fs[loc[r].project_dir].tree)
            /\ Failed(r, "mitm_patch") =>
                  /\ "AndroidManifest.xml not found." \in Range(logs[r])
                  /\ ret[r].raised = ""
                  /\ ~Ended(r) => ENABLED Step(r)
                  /\ Ended(r) =>
                        /\ ret[r] = Returned(SuccessStatus, ZipPathOf(r))
                        /\ "create_zip" \in Ops(r)
                        /\ Exists(fs, ZipPathOf(r))
                        /\ "AndroidManifest.xml" \notin DOMAIN fs[ZipPathOf(r)].tree

C18_Witness ==
    \E r \in Runs :
        /\ IsProcess(r) /\ Ended(r)
        /\ Failed(r, "mitm_patch")
        /\ Range(inp[r].decode_options) = {"mitm_patch"}
        /\ ret[r].status = SuccessStatus
        /\ "res/xml/network_security_config.xml" \in DOMAIN fs[ZipPathOf(r)].tree

\* C19: the tool check of a run reports success exactly when `java --version`
\* exited zero and apktool.jar, uber-apk-signer.jar and the JADX launcher exist;
\* otherwise its diagnostic names the first dependency missing in the order
\* java, apktool, signer, JADX, and a java query that exited non-zero or could
\* not be started is reported as Java not found.
C19_ToolCheckNamesFirstMissing ==
    \A r \in Runs :
        (IsProcess(r) /\ calls[r] # <<>>) =>
            LET present == <<tools.java = "exit 0", tools.apktool, tools.signer, tools.jadx>>
                diagnostic == << "Java (JDK) not found.",
                                 "apktool.jar not found at tools/apktool.jar",
                                 "uber-apk-signer.jar not found at tools/uber-apk-signer.jar",
                                 "JADX not found at tools/jadx/bin/jadx" >>
                missing == {i \in 1..4 : ~present[i]}
                first == CHOOSE i \in missing : \A j \in missing : i <= j
            IN  /\ calls[r][1].op = "check_tools"
                /\ calls[r][1].ok <=> missing = {}
                /\ missing # {} =>
                      /\ logs[r][1] = "--- Tool Check ---\n" \o diagnostic[first]
                      /\ Ended(r)
                      /\ ret[r] = ToolErrorReturned

C19_Witness ==
    \E r \in Runs :
        /\ IsProcess(r) /\ Ended(r)
        /\ tools.java = "not launched" /\ ~tools.apktool /\ tools.signer /\ ~tools.jadx
        /\ logs[r] = <<"--- Tool Check ---\nJava (JDK) not found.">>

\* C20: a process_apk run given both an uploaded file and a URL works on the
\* uploaded file: it never calls download_apk, sends no request and writes no
\* download, and its project name is the stem of the uploaded file's name.
C20_UploadWinsOverUrl ==
    \A r \in Runs :
        (IsProcess(r) /\ inp[r].apk_file # NoPath /\ inp[r].apk_url # NoUrl) =>
            /\ "download_apk" \notin Ops(r)
            /\ ~loc[r].requested
            /\ loc[r].opened = NoPath
            /\ \A p \in DOMAIN fs : fs[p].kind # "file"
            /\ loc[r].apk_path \in {NoPath, inp[r].apk_file}
            /\ loc[r].project_dir # NoPath =>
                  /\ loc[r].apk_path = inp[r].apk_file
                  /\ loc[r].project_name = inp[r].apk_file.name.stem

C20_Witness ==
    \E r \in Runs :
        /\ IsProcess(r) /\ Ended(r)
        /\ inp[r].apk_file = MkPath("gradio", Name("other", "apk"))
        /\ inp[r].apk_url = Url(Name("sample", "apk"))
        /\ loc[r].project_name = "other"
        /\ ret[r].artifact = MkPath("downloads", Name("other-decompiled", "zip"))

====
